---------------------------- MODULE Spec2Model ----------------------------
(***************************************************************************)
(* Model of the LinkedIn job scraper: the packaged scraper                 *)
(* (jobbot/app: load_config, run_scrape, scrape) and the two standalone    *)
(* scripts (linkedin_scraper_min_v2.py, linkedin_scraper_min.py).          *)
(*                                                                         *)
(* Strings that the code takes apart are sequences of lexemes: a company   *)
(* name is a sequence of one-character strings, an href is a sequence of   *)
(* tokens ("/jobs/view/", "-", "?", single digits, words without digits).  *)
(* A Python Optional is None == <<>> or Some(x) == <<x>>.                  *)
(***************************************************************************)
EXTENDS Integers, Sequences, FiniteSets, TLC

VARIABLES
    impl,           \* which program runs: "jobbot", "min_v2" or "min"
    entry,          \* "load_config" (CLI / main) or "direct" (scrape called with a config object)
    server,         \* what the search endpoint serves: page sizes, cards, number of pages
    cfg,            \* the LinkedInSearchConfig (the YAML section before it is loaded)
    cfg0,           \* the configuration as it was handed in
    pc,             \* position of the run
    start,          \* scrape: start
    jobs,           \* scrape: jobs
    seen_ids,       \* scrape: seen_ids
    jobs_in_batch,  \* scrape: len(job_cards) of the page being processed
    cards_done,     \* iterations of "for job_card in job_cards" begun on this page
    cur,            \* the card whose detail page is being fetched
    params,         \* parameters of the search request in flight / last built
    searchLog,      \* offsets of the search requests sent, in order
    detailLog,      \* job ids of the detail requests sent, in order
    sleeps,         \* calls of _sleep_polite
    batchLog,       \* number of containers of each page received, in order
    pagesServed,    \* non-empty pages the server has returned
    resp,           \* scrape: resp, the last search response, or None
    detail_resp,    \* fetch_job_description: the response in flight to the detail request
    firstSeen,      \* history: the parsed ids in order of first encounter
    pageMark,       \* history: Len(firstSeen) when the current page arrived
    repeats,        \* history: a card repeated an id met on an earlier page
    raised,         \* the exception that ended the run, or "none"
    result,         \* the returned list, Some(jobs), or None
    pair            \* two programs run side by side on the same responses

vars == <<impl, entry, server, cfg, cfg0, pc, start, jobs, seen_ids, jobs_in_batch,
          cards_done, cur, params, searchLog, detailLog, sleeps, batchLog,
          pagesServed, resp, detail_resp, firstSeen, pageMark, repeats, raised,
          result, pair>>

---------------------------------------------------------------------------
\* Python values

None == <<>>
Some(x) == <<x>>
IsNone(o) == o = <<>>
Val(o) == o[1]

Max(a, b) == IF a >= b THEN a ELSE b

DigitChars == <<"0", "1", "2", "3", "4", "5", "6", "7", "8", "9">>
IsDigit(t) == \E i \in 1..10 : DigitChars[i] = t

\* str(n) of a non-negative int, as a sequence of digit characters
RECURSIVE Str(_)
Str(n) == IF n < 10 THEN <<DigitChars[n + 1]>>
          ELSE Str(n \div 10) \o <<DigitChars[(n % 10) + 1]>>

\* ",".join(str(x) for x in xs)
RECURSIVE JoinComma(_)
JoinComma(xs) ==
    IF xs = <<>> THEN <<>>
    ELSE IF Len(xs) = 1 THEN Str(xs[1])
    ELSE Str(xs[1]) \o <<",">> \o JoinComma(Tail(xs))

\* str.lower() on the characters the model uses
LowerChar(c) ==
    CASE c = "A" -> "a" [] c = "C" -> "c" [] c = "M" -> "m" [] c = "E" -> "e"
      [] c = "G" -> "g" [] c = "L" -> "l" [] c = "O" -> "o" [] c = "N" -> "n"
      [] OTHER -> c
Lower(s) == [i \in 1..Len(s) |-> LowerChar(s[i])]

IsSpace(c) == c = " " \/ c = "\n" \/ c = "\t"

\* str.strip()
RECURSIVE LStrip(_)
LStrip(s) == IF s # <<>> /\ IsSpace(s[1]) THEN LStrip(Tail(s)) ELSE s
RECURSIVE RStrip(_)
RStrip(s) == IF s # <<>> /\ IsSpace(s[Len(s)]) THEN RStrip(SubSeq(s, 1, Len(s) - 1)) ELSE s
Strip(s) == RStrip(LStrip(s))

\* Python's "needle in hay" on strings
Contains(hay, needle) ==
    \E i \in 0..(Len(hay) - Len(needle)) :
        \A j \in 1..Len(needle) : hay[i + j] = needle[j]

---------------------------------------------------------------------------
\* Program constants

OffsetCeiling == 1000
PageGranularity == 10
PageGranularityMin == 25
SecondsPerHour == 3600
RateLimitedStatus == 429
ErrorStatusFloor == 400
ValidWorkTypes == {1, 2, 3}
JobUrlPrefix == "https://www.linkedin.com/jobs/view/"
NA == <<"N", "/", "A">>

---------------------------------------------------------------------------
\* _extract_job_id_from_href

\* href.split("?")[0]
RECURSIVE BeforeQuery(_)
BeforeQuery(h) ==
    IF h = <<>> \/ h[1] = "?" THEN <<>> ELSE <<h[1]>> \o BeforeQuery(Tail(h))

\* number of digit tokens at the end of h
RECURSIVE TrailingDigits(_)
TrailingDigits(h) ==
    IF h # <<>> /\ IsDigit(h[Len(h)])
    THEN 1 + TrailingDigits(SubSeq(h, 1, Len(h) - 1)) ELSE 0

\* number of digit tokens of h from position i on
RECURSIVE DigitRun(_, _)
DigitRun(h, i) ==
    IF i <= Len(h) /\ IsDigit(h[i]) THEN 1 + DigitRun(h, i + 1) ELSE 0

\* re.search(r"-(\d+)$", href): group 1, or None
MatchDashDigitsEnd(h) ==
    LET n == TrailingDigits(h)
    IN  IF n >= 1 /\ Len(h) > n /\ h[Len(h) - n] = "-"
        THEN Some(SubSeq(h, Len(h) - n + 1, Len(h))) ELSE None

\* re.search(r"/jobs/view/(\d+)", href): group 1 of the leftmost match, or None
MatchJobsView(h) ==
    LET hits == {i \in 1..Len(h) : h[i] = "/jobs/view/" /\ DigitRun(h, i + 1) >= 1}
    IN  IF hits = {} THEN None
        ELSE LET i == CHOOSE k \in hits : \A m \in hits : k <= m
             IN  Some(SubSeq(h, i + 1, i + DigitRun(h, i + 1)))

extract_job_id_from_href(href) ==
    LET h == BeforeQuery(href)
        m == MatchDashDigitsEnd(h)
    IN  IF ~IsNone(m) THEN m ELSE MatchJobsView(h)

---------------------------------------------------------------------------
\* _plain_text: get_text(separator=" "), re.sub(r"\s+", " ", text).strip()

RECURSIVE CollapseSpace(_)
CollapseSpace(s) ==
    IF s = <<>> THEN <<>>
    ELSE IF IsSpace(s[1])
         THEN IF Len(s) >= 2 /\ IsSpace(s[2]) THEN CollapseSpace(Tail(s))
              ELSE <<" ">> \o CollapseSpace(Tail(s))
         ELSE <<s[1]>> \o CollapseSpace(Tail(s))

plain_text(text) == Strip(CollapseSpace(text))

---------------------------------------------------------------------------
\* Configuration (config.py, and the dataclasses of the two scripts)

NoAttr == <<>>      \* the object has no attribute filter_out_companies

\* LinkedInSearchConfig(**linkedin_dict): the dataclass of no variant has a
\* field filter_out_companies, so the key is an unexpected keyword argument
DataclassAccepts(im, y) == IsNone(y.filter_out_companies)

WorkTypeValid(c) == IsNone(c.f_WT) \/ Val(c.f_WT) \in ValidWorkTypes

\* load_config: the exception it raises, or "none"
load_config(im, y) ==
    IF ~DataclassAccepts(im, y) THEN "TypeError"
    ELSE IF im = "jobbot" /\ ~WorkTypeValid(y) THEN "ValueError"
    ELSE "none"

---------------------------------------------------------------------------
\* build_search_params

EmptyDict == [k \in {} |-> 0]

BaseParams(c, s) ==
    ("keywords" :> c.keywords) @@ ("location" :> c.location)
    @@ ("distance" :> c.distance) @@ ("pageNum" :> 0) @@ ("start" :> s)

\* the f_WT step raises ValueError in linkedin_scraper_min_v2 only
WorkTypeRaises(im, c) == im = "min_v2" /\ ~WorkTypeValid(c)

WorkTypeParam(im, c) ==
    IF im = "min"
    THEN IF c.is_remote THEN "f_WT" :> 2 ELSE EmptyDict
    ELSE IF ~IsNone(c.f_WT) THEN "f_WT" :> Val(c.f_WT) ELSE EmptyDict

ExperienceParam(c) ==
    IF c.experience_levels # <<>> THEN "f_E" :> c.experience_levels ELSE EmptyDict

EasyApplyParam(c) ==
    IF c.easy_apply THEN "f_AL" :> "true" ELSE EmptyDict

CompanyParam(c) ==
    IF c.company_ids # <<>> THEN "f_C" :> JoinComma(c.company_ids) ELSE EmptyDict

RecencyParam_Truthy(c) ==
    IF ~IsNone(c.hours_old) /\ Val(c.hours_old) # 0
    THEN "f_TPR" :> (<<"r">> \o Str(Val(c.hours_old) * SecondsPerHour))
    ELSE EmptyDict

RecencyParam(c) ==
    IF ~IsNone(c.hours_old)
    THEN "f_TPR" :> (<<"r">> \o Str(Val(c.hours_old) * SecondsPerHour))
    ELSE EmptyDict

\* [exc |-> the exception raised or "none", params |-> the mapping returned]
build_search_params(im, c, s) ==
    IF WorkTypeRaises(im, c)
    THEN [exc |-> "ValueError", params |-> EmptyDict]
    ELSE [exc |-> "none",
          params |-> BaseParams(c, s) @@ WorkTypeParam(im, c) @@ ExperienceParam(c)
                     @@ EasyApplyParam(c) @@ CompanyParam(c) @@ RecencyParam(c)]

---------------------------------------------------------------------------
\* fetch_job_description

DetailBody == <<" ", "G", "o", "\n", " ", "d", "\t">>

DetailResponses ==
    { [exc |-> "none", status |-> 200, url |-> "job", div |-> Some(DetailBody)],
      [exc |-> "Timeout", status |-> 0, url |-> "job", div |-> None],
      [exc |-> "none", status |-> 404, url |-> "job", div |-> Some(DetailBody)],
      [exc |-> "none", status |-> 200, url |-> "signup", div |-> Some(DetailBody)],
      [exc |-> "none", status |-> 200, url |-> "login", div |-> Some(DetailBody)],
      [exc |-> "none", status |-> 200, url |-> "job", div |-> None] }

\* session.get raised, or resp.raise_for_status() raised
DetailRequestFailed(r) == r.exc # "none" \/ r.status >= ErrorStatusFloor

SignInBoundary_SignupOnly(r) == r.url = "signup"

SignInBoundary(r) == r.url = "signup" \/ r.url = "login"

fetch_job_description(r) ==
    IF DetailRequestFailed(r) THEN None
    ELSE IF SignInBoundary(r) THEN None
    ELSE IF IsNone(r.div) THEN None
    ELSE Some(plain_text(Val(r.div)))

---------------------------------------------------------------------------
\* The loop of scrape / scrape_linkedin

InitialStart_NoRounding(im, c) == c.offset

InitialStart(im, c) ==
    LET g == IF im = "min" THEN PageGranularityMin ELSE PageGranularity
    IN  IF c.offset # 0 THEN (c.offset \div g) * g ELSE 0

LoopCondition_CeilingInclusive(js, c, s) ==
    Len(js) < c.results_wanted /\ s <= OffsetCeiling

LoopCondition_NoTargetTest(js, c, s) == s < OffsetCeiling

LoopCondition(js, c, s) == Len(js) < c.results_wanted /\ s < OffsetCeiling

TargetReached_OffByOne(js, c) == Len(js) > c.results_wanted

TargetReached(js, c) == Len(js) >= c.results_wanted

NextStart_FixedPage(s, batch) == s + PageGranularityMin

NextStart_NoAdvance(s, batch) == s

NextStart(s, batch) == s + batch

ShouldSleep_Always(js, c) == TRUE

ShouldSleep(js, c) == Len(js) < c.results_wanted

SearchFailure_AlwaysRaise(im) == "raise"

\* what a failed search request does: "break" or "raise"
SearchFailure(im) == IF im = "min" THEN "raise" ELSE "break"

SearchResponseFailed(r) ==
    r.exc # "none" \/ r.status = RateLimitedStatus \/ r.status >= ErrorStatusFloor

\* the blocklist block exists in the packaged scraper only
HasBlocklistCode(im) == im = "jobbot"

\* any(block.lower().strip() in comp_lower for block in terms if block)
AnyTermMatches(company, terms) ==
    \E i \in 1..Len(terms) :
        /\ terms[i] # <<>>
        /\ Contains(Lower(company), Strip(Lower(terms[i])))

\* "if cfg.filter_out_companies:" and the match, for an object that has the attribute
IsBlocked(company, c) ==
    /\ Val(c.filter_out_companies) # <<>>
    /\ AnyTermMatches(company, Val(c.filter_out_companies))

MakeJob(job_id, title, company, description) ==
    [job_url |-> <<JobUrlPrefix>> \o job_id, title |-> title,
     company_name |-> company, description |-> description]

JobId(j) == Tail(j.job_url)
JobIds(js) == [i \in 1..Len(js) |-> JobId(js[i])]

---------------------------------------------------------------------------
\* Bounds and inputs

MaxPages == 2       \* non-empty pages a small-batch server holds
MaxBigPages == 3    \* non-empty pages a large-batch server holds

SearchStatuses == {200, 400, 429}

\* A listing container: the href of its link (None: no link tag), its title
\* and its company name (None: tag missing)
Acme == <<"A", "c", "m", "e">>
Globex == <<"G", "l", "o">>
Card101 ==
    [href |-> Some(<<"/jobs/view/", "engineer", "-", "1", "0", "1", "?", "refId">>),
     title |-> Some(<<"S", "W", "E">>), company |-> Some(Acme)]
Card102 ==
    [href |-> Some(<<"/jobs/view/", "1", "0", "2", "/">>),
     title |-> Some(<<"Q", "A">>), company |-> Some(Globex)]
Card103 ==
    [href |-> Some(<<"/jobs/view/", "dev", "-", "1", "0", "3">>),
     title |-> None, company |-> None]
CardNoLink ==
    [href |-> None, title |-> Some(<<"S", "W", "E">>), company |-> Some(Acme)]
CardEmptyHref ==
    [href |-> Some(<<>>), title |-> Some(<<"S", "W", "E">>), company |-> Some(Acme)]
CardBadHref ==
    [href |-> Some(<<"/jobs/search", "?", "-", "9">>),
     title |-> Some(<<"Q", "A">>), company |-> Some(Globex)]

\* a server answering in batches of up to two cards, of every kind
SmallBatchServer ==
    [sizes |-> {0, 1, 2}, pages |-> MaxPages,
     cards |-> {Card101, Card102, Card103, CardNoLink, CardEmptyHref, CardBadHref}]

\* a server answering in the provider's batches of 10 and 25 cards
LargeBatchServer ==
    [sizes |-> {0, 10, 25}, pages |-> MaxBigPages,
     cards |-> {Card101, Card102, CardNoLink}]

BlockLists ==
    { NoAttr, Some(<<>>), Some(<< <<>>, <<" ", "A", "C", "M", "E">> >>) }

BaseConfig ==
    [keywords |-> "engineer", location |-> "Remote", distance |-> 25,
     f_WT |-> None, is_remote |-> FALSE, experience_levels |-> <<"2", ",", "3">>,
     easy_apply |-> FALSE, company_ids |-> <<>>, hours_old |-> Some(24),
     fetch_description |-> TRUE, results_wanted |-> 3, offset |-> 0,
     filter_out_companies |-> NoAttr]

\* the configurations of the collection runs
LoopConfigs ==
    { [BaseConfig EXCEPT !.f_WT = w, !.fetch_description = fd,
                         !.results_wanted = rw, !.offset = off,
                         !.filter_out_companies = bl] :
        w \in {None, Some(7)}, fd \in BOOLEAN, rw \in {-1, 0, 1, 3},
        off \in {0, 37, 1000}, bl \in BlockLists }

\* the configurations of the runs against the large-batch server
PagingConfigs ==
    { [BaseConfig EXCEPT !.fetch_description = FALSE, !.results_wanted = rw,
                         !.offset = off, !.filter_out_companies = bl] :
        rw \in {2, 4}, off \in {0, 985, 1000}, bl \in {NoAttr, Some(<<>>)} }

\* the configurations build_search_params is applied to
BuildConfigs ==
    { [BaseConfig EXCEPT !.f_WT = w, !.is_remote = rem, !.experience_levels = ex,
                         !.easy_apply = ea, !.company_ids = ids, !.hours_old = h] :
        w \in {None, Some(1), Some(2), Some(3), Some(7)}, rem \in BOOLEAN,
        ex \in {<<>>, <<"2", ",", "3">>}, ea \in BOOLEAN,
        ids \in {<<>>, <<7>>, <<7, 42>>}, h \in {None, Some(0), Some(24)} }

---------------------------------------------------------------------------
\* State machine

config == <<impl, entry, server, cfg, cfg0>>
history == <<firstSeen, pageMark, repeats>>

\* the locals and the observable effects of one run of scrape / scrape_linkedin,
\* before the function is entered
IdleRun ==
    [pc |-> "scrape", start |-> 0, jobs |-> <<>>, seen_ids |-> {},
     jobs_in_batch |-> 0, cards_done |-> 0, cur |-> None, searchLog |-> <<>>,
     detailLog |-> <<>>, sleeps |-> 0, raised |-> "none", result |-> None]

\* the packaged scraper (left) and linkedin_scraper_min_v2 (right), and the
\* number of non-empty pages the server they both talk to has returned
InitialPair == [left |-> IdleRun, right |-> IdleRun, pagesServed |-> 0]


InitRun ==
    /\ cfg0 = cfg
    /\ start = 0
    /\ jobs = <<>>
    /\ seen_ids = {}
    /\ jobs_in_batch = 0
    /\ cards_done = 0
    /\ cur = None
    /\ params = EmptyDict
    /\ searchLog = <<>>
    /\ detailLog = <<>>
    /\ sleeps = 0
    /\ batchLog = <<>>
    /\ pagesServed = 0
    /\ resp = None
    /\ detail_resp = None
    /\ firstSeen = <<>>
    /\ pageMark = 0
    /\ repeats = FALSE
    /\ raised = "none"
    /\ result = None
    /\ pair = InitialPair

Init ==
    /\ impl \in {"jobbot", "min_v2", "min"}
    /\ entry \in {"load_config", "direct"}
    /\ entry = "direct" => impl = "jobbot"
    /\ server \in {SmallBatchServer, LargeBatchServer}
    /\ cfg \in IF server = SmallBatchServer THEN LoopConfigs ELSE PagingConfigs
    /\ impl = "min" => IsNone(cfg.f_WT)
    /\ pc = IF entry = "load_config" THEN "load" ELSE "scrape"
    /\ InitRun

\* cli.run / main: cfg = load_config(path)
LoadConfig ==
    /\ pc = "load"
    /\ LET exc == load_config(impl, cfg)
       IN  IF exc # "none"
           THEN /\ raised' = exc
                /\ pc' = "raised"
           ELSE /\ raised' = raised
                /\ pc' = "scrape"
    /\ UNCHANGED <<config, pair, history, start, jobs, seen_ids, jobs_in_batch, cards_done,
                   cur, params, searchLog, detailLog, sleeps, batchLog,
                   pagesServed, resp, detail_resp, result>>

\* scrape, up to the while loop
ScrapeStart ==
    /\ pc = "scrape"
    /\ jobs' = <<>>
    /\ seen_ids' = {}
    /\ start' = InitialStart(impl, cfg)
    /\ pc' = "loop"
    /\ UNCHANGED <<config, pair, history, jobs_in_batch, cards_done, cur, params,
                   searchLog, detailLog, sleeps, batchLog, pagesServed, resp,
                   detail_resp, raised, result>>

\* the while condition is false: return jobs
ReturnJobs ==
    /\ pc = "loop"
    /\ ~LoopCondition(jobs, cfg, start)
    /\ result' = Some(jobs)
    /\ pc' = "returned"
    /\ UNCHANGED <<config, pair, history, start, jobs, seen_ids, jobs_in_batch,
                   cards_done, cur, params, searchLog, detailLog, sleeps,
                   batchLog, pagesServed, resp, detail_resp, raised>>

\* the while condition is true: build the parameters and send the search request
SendSearch ==
    /\ pc = "loop"
    /\ LoopCondition(jobs, cfg, start)
    /\ LET b == build_search_params(impl, cfg, start)
       IN  IF b.exc # "none"
           THEN /\ raised' = b.exc
                /\ pc' = "raised"
                /\ UNCHANGED <<params, searchLog>>
           ELSE /\ params' = b.params
                /\ searchLog' = Append(searchLog, b.params["start"])
                /\ pc' = "await_search"
                /\ raised' = raised
    /\ UNCHANGED <<config, pair, history, start, jobs, seen_ids, jobs_in_batch,
                   cards_done, cur, detailLog, sleeps, batchLog, pagesServed,
                   resp, detail_resp, result>>

SearchFailures ==
    {[exc |-> "ConnectionError", status |-> 0]}
    \cup {[exc |-> "none", status |-> st] : st \in SearchStatuses \ {200}}

\* the search request fails: break (return jobs), or raise in linkedin_scraper_min
SearchFails ==
    /\ pc = "await_search"
    /\ \E r \in SearchFailures :
        /\ SearchResponseFailed(r)
        /\ resp' = Some(r)
        /\ IF SearchFailure(impl) = "raise"
           THEN /\ raised' = "RuntimeError"
                /\ pc' = "raised"
                /\ result' = result
           ELSE /\ result' = Some(jobs)
                /\ pc' = "returned"
                /\ raised' = raised
    /\ UNCHANGED <<config, pair, history, start, jobs, seen_ids, jobs_in_batch,
                   cards_done, cur, params, searchLog, detailLog, sleeps,
                   batchLog, pagesServed, detail_resp>>

NoCards_Never(n) == FALSE

\* "if not job_cards": the page has no listing container
NoCards(n) == n = 0

\* the search request succeeds with n listing containers
SearchSucceeds ==
    /\ pc = "await_search"
    /\ \E n \in server.sizes :
        /\ pagesServed >= server.pages => n = 0
        /\ resp' = Some([exc |-> "none", status |-> 200])
        /\ batchLog' = Append(batchLog, n)
        /\ IF NoCards(n)
           THEN /\ result' = Some(jobs)
                /\ pc' = "returned"
                /\ UNCHANGED <<jobs_in_batch, cards_done, pagesServed>>
           ELSE /\ jobs_in_batch' = n
                /\ cards_done' = 0
                /\ pagesServed' = pagesServed + 1
                /\ pc' = "cards"
                /\ result' = result
    /\ pageMark' = Len(firstSeen)
    /\ UNCHANGED <<config, pair, firstSeen, repeats, start, jobs, seen_ids, cur, params,
                   searchLog, detailLog, sleeps, detail_resp, raised>>

ConfigAfterAdvance_StoresOffset(c, s) == [c EXCEPT !.offset = s]

\* "start += jobs_in_batch" assigns the local start; cfg is only read
ConfigAfterAdvance(c, s) == c

WantsDescription_Always(c) == TRUE

\* "if cfg.fetch_description"
WantsDescription(c) == c.fetch_description

MarkSeen_Forget(seen, job_id) == seen

\* "seen_ids.add(job_id)"
MarkSeen(seen, job_id) == seen \cup {job_id}

\* after one iteration of the for loop: next card, or leave the loop (break or
\* last card), advance start, sleep when the target is not reached
AfterCard(js, done, broke) ==
    IF broke \/ done = jobs_in_batch
    THEN /\ start' = NextStart(start, jobs_in_batch)
         /\ cfg' = ConfigAfterAdvance(cfg, NextStart(start, jobs_in_batch))
         /\ sleeps' = IF ShouldSleep(js, cfg) THEN sleeps + 1 ELSE sleeps
         /\ pc' = "loop"
    ELSE /\ pc' = "cards"
         /\ UNCHANGED <<cfg, start, sleeps>>

Title(card) == IF IsNone(card.title) THEN NA ELSE Val(card.title)
Company(card) == IF IsNone(card.company) THEN NA ELSE Val(card.company)

Discarded_NoSeenCheck(card, seen) ==
    \/ IsNone(card.href)
    \/ Val(card.href) = <<>>
    \/ IsNone(extract_job_id_from_href(Val(card.href)))

\* the card is dropped before it is looked at: no link, no href, no id, seen id
Discarded(card, seen) ==
    \/ IsNone(card.href)
    \/ Val(card.href) = <<>>
    \/ IsNone(extract_job_id_from_href(Val(card.href)))
    \/ Val(extract_job_id_from_href(Val(card.href))) \in seen

\* the identifier a card carries (None: the card has none)
CardId(card) ==
    IF IsNone(card.href) \/ Val(card.href) = <<>> THEN None
    ELSE extract_job_id_from_href(Val(card.href))

\* history of the identifiers met: first encounters in order, and whether an
\* id first met on an earlier page has come again
Observe(card) ==
    LET id == CardId(card)
        first == {k \in 1..Len(firstSeen) : firstSeen[k] = Val(id)}
    IN  /\ pageMark' = pageMark
        /\ IF IsNone(id) THEN UNCHANGED <<firstSeen, repeats>>
           ELSE IF first = {}
           THEN /\ firstSeen' = Append(firstSeen, Val(id))
                /\ repeats' = repeats
           ELSE /\ firstSeen' = firstSeen
                /\ repeats' = (repeats \/ \E k \in first : k <= pageMark)

\* one iteration of "for job_card in job_cards", up to the detail request
ProcessCard ==
    /\ pc = "cards"
    /\ \E card \in server.cards :
        LET done == cards_done + 1
        IN  /\ cards_done' = done
            /\ Observe(card)
            /\ IF Discarded(card, seen_ids)
               THEN /\ AfterCard(jobs, done, FALSE)
                    /\ UNCHANGED <<jobs, seen_ids, cur, detailLog, detail_resp, raised>>
               ELSE LET job_id == Val(extract_job_id_from_href(Val(card.href)))
                    IN  /\ seen_ids' = MarkSeen(seen_ids, job_id)
                        /\ IF HasBlocklistCode(impl) /\ cfg.filter_out_companies = NoAttr
                           THEN /\ raised' = "AttributeError"
                                /\ pc' = "raised"
                                /\ UNCHANGED <<cfg, jobs, cur, detailLog, detail_resp,
                                               start, sleeps>>
                           ELSE IF HasBlocklistCode(impl) /\ IsBlocked(Company(card), cfg)
                           THEN /\ AfterCard(jobs, done, FALSE)
                                /\ UNCHANGED <<jobs, cur, detailLog, detail_resp, raised>>
                           ELSE IF WantsDescription(cfg)
                           THEN /\ cur' = Some([job_id |-> job_id, title |-> Title(card),
                                                company |-> Company(card)])
                                /\ detailLog' = Append(detailLog, job_id)
                                /\ \E r \in DetailResponses : detail_resp' = Some(r)
                                /\ pc' = "await_detail"
                                /\ UNCHANGED <<cfg, jobs, start, sleeps, raised>>
                           ELSE LET js == Append(jobs, MakeJob(job_id, Title(card),
                                                                Company(card), None))
                                IN  /\ jobs' = js
                                    /\ AfterCard(js, done, TargetReached(js, cfg))
                                    /\ UNCHANGED <<cur, detailLog, detail_resp, raised>>
    /\ UNCHANGED <<impl, entry, server, cfg0, pair, jobs_in_batch, params, searchLog,
                   batchLog, pagesServed, resp, result>>

\* the detail response arrives; the rest of the iteration: the description,
\* jobs.append, the break test
FinishCard ==
    /\ pc = "await_detail"
    /\ LET c == Val(cur)
           js == Append(jobs, MakeJob(c.job_id, c.title, c.company,
                                      fetch_job_description(Val(detail_resp))))
       IN  /\ jobs' = js
           /\ AfterCard(js, cards_done, TargetReached(js, cfg))
    /\ cur' = None
    /\ detail_resp' = None
    /\ UNCHANGED <<impl, entry, server, cfg0, pair, history, seen_ids, jobs_in_batch,
                   cards_done, params, searchLog, detailLog, batchLog, pagesServed,
                   resp, raised, result>>

Next ==
    \/ LoadConfig
    \/ ScrapeStart
    \/ ReturnJobs
    \/ SendSearch
    \/ SearchFails
    \/ SearchSucceeds
    \/ ProcessCard
    \/ FinishCard

Spec == Init /\ [][Next]_vars

\* the runs followed to their end: descriptions are fetched only for a target
\* of at most one Job, offsets are 0, 985 and 1000
InitFair ==
    /\ Init
    /\ cfg.offset # 37
    /\ cfg.fetch_description => cfg.results_wanted <= 1

\* the same program under the assumption that it keeps running: the interpreter
\* executes the next statement and every network call returns
SpecFair == InitFair /\ [][Next]_vars /\ WF_vars(Next)

---------------------------------------------------------------------------
\* build_search_params applied to a configuration and an offset

InitBuild ==
    /\ impl \in {"jobbot", "min_v2", "min"}
    /\ entry = "direct"
    /\ server = SmallBatchServer
    /\ cfg \in BuildConfigs
    /\ pc = "build"
    /\ InitRun

BuildParams ==
    /\ pc = "build"
    /\ \E s \in {0, 25, 990} :
        LET b == build_search_params(impl, cfg, s)
        IN  /\ start' = s
            /\ params' = b.params
            /\ raised' = b.exc
            /\ pc' = IF b.exc = "none" THEN "built" ELSE "raised"
    /\ UNCHANGED <<config, pair, history, jobs, seen_ids, jobs_in_batch, cards_done, cur,
                   searchLog, detailLog, sleeps, batchLog, pagesServed, resp,
                   detail_resp, result>>

NextBuild == BuildParams

SpecBuild == InitBuild /\ [][NextBuild]_vars

---------------------------------------------------------------------------
\* Two programs side by side: the same loop as a function of the run's locals,
\* applied to the packaged scraper and to linkedin_scraper_min_v2 with the
\* same configuration and the same responses

LeftImpl == "jobbot"
RightImpl == "min_v2"

\* scrape, up to the while loop
RunStart(im, c, r) ==
    IF r.pc # "scrape" THEN r
    ELSE [r EXCEPT !.jobs = <<>>, !.seen_ids = {}, !.start = InitialStart(im, c),
                   !.pc = "loop"]

\* the while test, then build_search_params and session.get, or return jobs
RunLoop(im, c, r) ==
    IF r.pc # "loop" THEN r
    ELSE IF ~LoopCondition(r.jobs, c, r.start)
    THEN [r EXCEPT !.result = Some(r.jobs), !.pc = "returned"]
    ELSE LET b == build_search_params(im, c, r.start)
         IN  IF b.exc # "none"
             THEN [r EXCEPT !.raised = b.exc, !.pc = "raised"]
             ELSE [r EXCEPT !.searchLog = Append(@, b.params["start"]),
                            !.pc = "await_search"]

\* the search request failed with response f
RunSearchFails(im, c, r, f) ==
    IF r.pc # "await_search" THEN r
    ELSE IF SearchFailure(im) = "raise"
    THEN [r EXCEPT !.raised = "RuntimeError", !.pc = "raised"]
    ELSE [r EXCEPT !.result = Some(r.jobs), !.pc = "returned"]

\* the search request succeeded with n listing containers
RunSearchSucceeds(im, c, r, n) ==
    IF r.pc # "await_search" THEN r
    ELSE IF NoCards(n)
    THEN [r EXCEPT !.result = Some(r.jobs), !.pc = "returned"]
    ELSE [r EXCEPT !.jobs_in_batch = n, !.cards_done = 0, !.pc = "cards"]

\* the end of one iteration of the for loop, jobs being js
RunAfterCard(c, r, js, broke) ==
    IF broke \/ r.cards_done = r.jobs_in_batch
    THEN [r EXCEPT !.start = NextStart(@, r.jobs_in_batch),
                   !.sleeps = IF ShouldSleep(js, c) THEN @ + 1 ELSE @,
                   !.pc = "loop"]
    ELSE [r EXCEPT !.pc = "cards"]

\* one iteration of "for job_card in job_cards", up to the detail request
RunCard(im, c, r, card) ==
    IF r.pc # "cards" THEN r
    ELSE LET r1 == [r EXCEPT !.cards_done = @ + 1]
         IN  IF Discarded(card, r.seen_ids) THEN RunAfterCard(c, r1, r.jobs, FALSE)
             ELSE LET job_id == Val(extract_job_id_from_href(Val(card.href)))
                      r2 == [r1 EXCEPT !.seen_ids = MarkSeen(@, job_id)]
                      js == Append(r.jobs, MakeJob(job_id, Title(card),
                                                   Company(card), None))
                  IN  IF HasBlocklistCode(im) /\ c.filter_out_companies = NoAttr
                      THEN [r2 EXCEPT !.raised = "AttributeError", !.pc = "raised"]
                      ELSE IF HasBlocklistCode(im) /\ IsBlocked(Company(card), c)
                      THEN RunAfterCard(c, r2, r.jobs, FALSE)
                      ELSE IF WantsDescription(c)
                      THEN [r2 EXCEPT !.cur = Some([job_id |-> job_id,
                                                    title |-> Title(card),
                                                    company |-> Company(card)]),
                                      !.detailLog = Append(@, job_id),
                                      !.pc = "await_detail"]
                      ELSE RunAfterCard(c, [r2 EXCEPT !.jobs = js], js,
                                        TargetReached(js, c))

\* the detail response d arrives: the description, jobs.append, the break test
RunDetail(im, c, r, d) ==
    IF r.pc # "await_detail" THEN r
    ELSE LET k == Val(r.cur)
             js == Append(r.jobs, MakeJob(k.job_id, k.title, k.company,
                                          fetch_job_description(d)))
         IN  RunAfterCard(c, [r EXCEPT !.jobs = js, !.cur = None], js,
                          TargetReached(js, c))

\* the configurations given to both programs
PairConfigs ==
    { [BaseConfig EXCEPT !.f_WT = w, !.fetch_description = fd,
                         !.results_wanted = rw, !.offset = off,
                         !.filter_out_companies = bl] :
        w \in {None, Some(2), Some(7)}, fd \in BOOLEAN, rw \in {0, 1, 3},
        off \in {0, 37}, bl \in {NoAttr, Some(<<>>)} }

single == <<impl, entry, server, cfg, cfg0, pc, start, jobs, seen_ids, jobs_in_batch,
            cards_done, cur, params, searchLog, detailLog, sleeps, batchLog,
            pagesServed, resp, detail_resp, firstSeen, pageMark, repeats, raised,
            result>>

InitPair ==
    /\ impl = LeftImpl
    /\ entry = "direct"
    /\ server = SmallBatchServer
    /\ cfg \in PairConfigs
    /\ pc = "pair"
    /\ InitRun

At(p) == pc = "pair" /\ (pair.left.pc = p \/ pair.right.pc = p)

PairStart ==
    /\ At("scrape")
    /\ pair' = [pair EXCEPT !.left = RunStart(LeftImpl, cfg, @),
                            !.right = RunStart(RightImpl, cfg, @)]
    /\ UNCHANGED single

PairLoop ==
    /\ At("loop")
    /\ pair' = [pair EXCEPT !.left = RunLoop(LeftImpl, cfg, @),
                            !.right = RunLoop(RightImpl, cfg, @)]
    /\ UNCHANGED single

PairSearchFails ==
    /\ At("await_search")
    /\ \E f \in SearchFailures :
        /\ SearchResponseFailed(f)
        /\ pair' = [pair EXCEPT !.left = RunSearchFails(LeftImpl, cfg, @, f),
                                !.right = RunSearchFails(RightImpl, cfg, @, f)]
    /\ UNCHANGED single

PairSearchSucceeds ==
    /\ At("await_search")
    /\ \E n \in server.sizes :
        /\ pair.pagesServed >= server.pages => n = 0
        /\ pair' = [left |-> RunSearchSucceeds(LeftImpl, cfg, pair.left, n),
                    right |-> RunSearchSucceeds(RightImpl, cfg, pair.right, n),
                    pagesServed |-> IF NoCards(n) THEN pair.pagesServed
                                    ELSE pair.pagesServed + 1]
    /\ UNCHANGED single

PairCard ==
    /\ At("cards")
    /\ \E card \in server.cards :
        pair' = [pair EXCEPT !.left = RunCard(LeftImpl, cfg, @, card),
                             !.right = RunCard(RightImpl, cfg, @, card)]
    /\ UNCHANGED single

PairDetail ==
    /\ At("await_detail")
    /\ \E d \in DetailResponses :
        pair' = [pair EXCEPT !.left = RunDetail(LeftImpl, cfg, @, d),
                             !.right = RunDetail(RightImpl, cfg, @, d)]
    /\ UNCHANGED single

NextPair ==
    \/ PairStart
    \/ PairLoop
    \/ PairSearchFails
    \/ PairSearchSucceeds
    \/ PairCard
    \/ PairDetail

SpecPair == InitPair /\ [][NextPair]_vars

---------------------------------------------------------------------------
\* Claims

Returned == pc = "returned"
Wanted == Max(cfg0.results_wanted, 0)

\* C1: the loop never holds or returns more than results_wanted Jobs, and once
\* the number of collected Jobs has reached results_wanted no further card is
\* processed, no detail page is fetched and no search page is requested.
C1_AtMostWantedNoOverfetch ==
    /\ [](/\ Len(jobs) <= Wanted
          /\ ~IsNone(result) => Len(Val(result)) <= Wanted)
    /\ [][Len(jobs) >= cfg0.results_wanted =>
            /\ cards_done' = cards_done
            /\ detailLog' = detailLog
            /\ searchLog' = searchLog
            /\ jobs' = jobs]_vars

\* the target was reached in the middle of a page and the run has returned
C1_Witness ==
    /\ Returned
    /\ impl = "jobbot"
    /\ cfg0.results_wanted = 3
    /\ Len(Val(result)) = 3
    /\ cards_done < jobs_in_batch
    /\ Len(searchLog) = 2

NoDuplicates(seq) == \A i, j \in 1..Len(seq) : seq[i] = seq[j] => i = j

\* seq is a subsequence of full: its elements appear in full, in the same order
InOrderOf(seq, full) ==
    \A i, j \in 1..Len(seq) :
        i < j => \E k, m \in 1..Len(full) : k < m /\ full[k] = seq[i] /\ full[m] = seq[j]

\* C2: the Job sequence holds each identifier (each job_url) at most once, and
\* the Jobs are in the order in which their identifiers were first encountered.
C2_UniqueInFirstSeenOrder ==
    /\ NoDuplicates(JobIds(jobs))
    /\ NoDuplicates([i \in 1..Len(jobs) |-> jobs[i].job_url])
    /\ \A i \in 1..Len(jobs) : jobs[i].job_url[1] = JobUrlPrefix
    /\ \A i \in 1..Len(jobs) : \E k \in 1..Len(firstSeen) : firstSeen[k] = JobId(jobs[i])
    /\ InOrderOf(JobIds(jobs), firstSeen)
    /\ ~IsNone(result) => Val(result) = jobs

\* an identifier of an earlier page came again on a later page, and the run
\* returned two Jobs
C2_Witness ==
    /\ Returned
    /\ impl = "jobbot"
    /\ repeats
    /\ Len(Val(result)) >= 2
    /\ Len(batchLog) >= 2

SearchRequestFailed ==
    /\ ~IsNone(resp)
    /\ (Val(resp).exc # "none" \/ Val(resp).status >= 400)

StoppedWithJobs == pc = "returned" /\ raised = "none" /\ result = Some(jobs)

\* C3 as stated: after a failed search request (transport error, 429, any other
\* status >= 400) the run has returned the accumulated Jobs and has not raised.
C3_Original == SearchRequestFailed => StoppedWithJobs

\* C3 as amended: the packaged scraper and linkedin_scraper_min_v2 stop and
\* return the accumulated Jobs without raising (an empty list when the first
\* request fails); linkedin_scraper_min raises RuntimeError and returns nothing.
C3_FailureStopsOrRaises ==
    SearchRequestFailed =>
        IF impl = "min"
        THEN pc = "raised" /\ raised = "RuntimeError" /\ IsNone(result)
        ELSE /\ StoppedWithJobs
             /\ Len(searchLog) = 1 => result = Some(<<>>)

\* a later search request was rate-limited and the Jobs collected so far came back
C3_Witness ==
    /\ SearchRequestFailed
    /\ Val(resp).status = 429
    /\ impl = "jobbot"
    /\ Len(searchLog) = 2
    /\ Returned
    /\ Len(Val(result)) >= 1

\* C4: each search request after the first is sent at the offset of the
\* previous request plus the number of cards the previous page returned.
C4_OffsetAdvancesByBatch ==
    /\ Len(batchLog) <= Len(searchLog)
    /\ \A i \in 2..Len(searchLog) : searchLog[i] = searchLog[i - 1] + batchLog[i - 1]

\* pages of 25, 25, 10 and 0 cards from offset 0: requests at 0, 25, 50, 60, stop
C4_Witness ==
    /\ Returned
    /\ impl = "jobbot"
    /\ batchLog = <<25, 25, 10, 0>>
    /\ searchLog = <<0, 25, 50, 60>>

\* a company name that case-insensitively contains a non-empty term
NameContainsTerm(company, terms) ==
    \E i \in 1..Len(terms) :
        terms[i] # <<>> /\ Contains(Lower(company), Lower(terms[i]))

\* C5 as stated: a run of the packaged scraper through load_config does not
\* fail because of the blocklist, and no returned Job is of a blocked company.
C5_Original ==
    (impl = "jobbot" /\ entry = "load_config") =>
        /\ raised \notin {"TypeError", "AttributeError"}
        /\ ~IsNone(cfg0.filter_out_companies) =>
              \A i \in 1..Len(jobs) :
                  ~NameContainsTerm(jobs[i].company_name, Val(cfg0.filter_out_companies))

DetailFetchFailed(r) ==
    \/ r.exc # "none"
    \/ r.status >= 400
    \/ r.url \in {"signup", "login"}
    \/ IsNone(r.div)

\* C6: whatever the detail response, the card produces a Job (description null
\* when the fetch failed) appended to the result, and the loop goes on as the
\* position in the page and the count of Jobs alone decide.
C6_DetailFailureKeepsJob ==
    [][pc = "await_detail" =>
        LET r == Val(detail_resp)
            n == Len(jobs) + 1
            leaves == n >= cfg0.results_wanted \/ cards_done = jobs_in_batch
        IN  /\ Len(jobs') = n
            /\ SubSeq(jobs', 1, Len(jobs)) = jobs
            /\ jobs'[n].job_url = <<JobUrlPrefix>> \o Val(cur).job_id
            /\ jobs'[n].title = Val(cur).title
            /\ jobs'[n].company_name = Val(cur).company
            /\ DetailFetchFailed(r) => jobs'[n].description = None
            /\ ~DetailFetchFailed(r) => jobs'[n].description # None
            /\ raised' = "none"
            /\ pc' = IF leaves THEN "loop" ELSE "cards"
            /\ start' = IF leaves THEN start + jobs_in_batch ELSE start
            /\ seen_ids' = seen_ids]_vars

\* a Job whose detail fetch failed is followed by a Job of a later page
C6_Witness ==
    /\ impl = "jobbot"
    /\ cfg0.fetch_description
    /\ Len(jobs) >= 2
    /\ jobs[1].description = None
    /\ jobs[2].description # None
    /\ Len(batchLog) >= 2
    /\ batchLog[1] = 1

WorkTypeOutsideEnum == ~IsNone(cfg0.f_WT) /\ Val(cfg0.f_WT) \notin {1, 2, 3}

\* C7 as stated: with a work-type code outside {1,2,3} no search request is
\* built or sent, the run never returns, and it ends in a configuration error.
C7_Original ==
    WorkTypeOutsideEnum =>
        /\ searchLog = <<>>
        /\ params = EmptyDict
        /\ pc # "returned"

\* C8: for a valid configuration build_search_params returns exactly the five
\* fixed keys plus the key of every enabled filter, pageNum = 0, start = the
\* offset, and leaves the configuration as it was.
C8_ExactKeySet ==
    (pc = "built" /\ impl = "jobbot" /\ ~WorkTypeOutsideEnum) =>
        /\ DOMAIN params =
              {"keywords", "location", "distance", "pageNum", "start"}
              \cup (IF ~IsNone(cfg0.f_WT) THEN {"f_WT"} ELSE {})
              \cup (IF cfg0.experience_levels # <<>> THEN {"f_E"} ELSE {})
              \cup (IF cfg0.easy_apply THEN {"f_AL"} ELSE {})
              \cup (IF cfg0.company_ids # <<>> THEN {"f_C"} ELSE {})
              \cup (IF ~IsNone(cfg0.hours_old) THEN {"f_TPR"} ELSE {})
        /\ params["pageNum"] = 0
        /\ params["start"] = start
        /\ cfg = cfg0
        /\ raised = "none"

\* hours_old = 0 is set, easy_apply is off: f_TPR is there, f_AL is not
C8_Witness ==
    /\ pc = "built"
    /\ impl = "jobbot"
    /\ cfg0.hours_old = Some(0)
    /\ ~cfg0.easy_apply
    /\ cfg0.company_ids = <<7, 42>>
    /\ "f_TPR" \in DOMAIN params
    /\ "f_AL" \notin DOMAIN params
    /\ params["f_C"] = <<"7", ",", "4", "2">>
    /\ params["f_TPR"] = <<"r", "0">>

\* C9: no search request is sent at an offset >= 1000, and with the offset at
\* or above 1000 at the top of an iteration the loop returns the Jobs it holds.
C9_NoRequestAtCeiling ==
    /\ [](\A i \in 1..Len(searchLog) : searchLog[i] < 1000)
    /\ [][(pc = "loop" /\ start >= 1000) =>
            (pc' = "returned" /\ result' = Some(jobs) /\ searchLog' = searchLog)]_vars

\* paging ran into the ceiling: requests were sent, the target is not reached
C9_Witness ==
    /\ Returned
    /\ start >= 1000
    /\ Len(searchLog) >= 2
    /\ batchLog[Len(batchLog)] # 0
    /\ Len(Val(result)) < cfg0.results_wanted
    /\ IsNone(resp) \/ Val(resp).status = 200

\* C10 as stated: the first search request is sent at floor(offset / 10) * 10.
C10_Original ==
    searchLog # <<>> => searchLog[1] = (cfg0.offset \div 10) * 10

\* C10 as amended: the first request is sent at floor(offset / 10) * 10 in the
\* packaged scraper and linkedin_scraper_min_v2, and at floor(offset / 25) * 25
\* in linkedin_scraper_min.
C10_FirstOffsetRounded ==
    searchLog # <<>> =>
        searchLog[1] = IF impl = "min" THEN (cfg0.offset \div 25) * 25
                       ELSE (cfg0.offset \div 10) * 10

\* a configured offset of 37 sends the first request of the packaged scraper at 30
C10_Witness ==
    /\ impl = "jobbot"
    /\ cfg0.offset = 37
    /\ searchLog # <<>>
    /\ searchLog[1] = 30

LastBatch == batchLog[Len(batchLog)]

\* C11: when a successfully fetched search page has zero cards the loop stops
\* normally: the step that receives the page leaves jobs as they were and
\* returns them, nothing is raised, and no search request follows the page.
C11_EmptyPageStopsNormally ==
    /\ []((batchLog # <<>> /\ LastBatch = 0) =>
            /\ pc = "returned"
            /\ raised = "none"
            /\ result = Some(jobs)
            /\ Len(searchLog) = Len(batchLog))
    /\ [][(batchLog' # batchLog /\ batchLog'[Len(batchLog')] = 0) =>
            (jobs' = jobs /\ searchLog' = searchLog /\ result' = Some(jobs))]_vars

\* two pages with cards gave Jobs, the third page was empty
C11_Witness ==
    /\ Returned
    /\ impl = "jobbot"
    /\ Len(batchLog) = 3
    /\ LastBatch = 0
    /\ Len(Val(result)) >= 2
    /\ Len(Val(result)) < cfg0.results_wanted

Id101 == <<"1", "0", "1">>
Id102 == <<"1", "0", "2">>
Id103 == <<"1", "0", "3">>

IsPrefix(s, t) == Len(s) <= Len(t) /\ s = SubSeq(t, 1, Len(s))

\* the number of cards taken from the pages received so far, when the pages
\* are the scenario's (two cards, one card, none)
ScenarioCardsTaken ==
    CASE Len(batchLog) = 0 -> 0
      [] Len(batchLog) = 1 -> cards_done
      [] Len(batchLog) = 2 -> 2 + cards_done
      [] OTHER -> 3

\* the packaged run of the scenario so far: results_wanted = 3 from offset 0
\* with no work type, pages of two, one and zero cards, every card taken so far
\* carrying the next of the identifiers 101, 102, 103
ScenarioRun ==
    /\ impl = "jobbot"
    /\ entry = "load_config"
    /\ server = SmallBatchServer
    /\ cfg0.results_wanted = 3
    /\ cfg0.offset = 0
    /\ IsNone(cfg0.f_WT)
    /\ cfg0.filter_out_companies = NoAttr
    /\ IsPrefix(batchLog, <<2, 1, 0>>)
    /\ IsPrefix(firstSeen, <<Id101, Id102, Id103>>)
    /\ ScenarioCardsTaken = Len(firstSeen)
    /\ ~SearchRequestFailed

\* C12 as stated: the run over pages (101, 102), (103), () with
\* results_wanted = 3 raises nothing, and once it has ended it has returned
\* exactly the three Jobs with job_urls .../101, .../102, .../103 in that order.
C12_Original ==
    ScenarioRun =>
        /\ raised = "none"
        /\ pc = "returned" =>
              /\ ~IsNone(result)
              /\ JobIds(Val(result)) = <<Id101, Id102, Id103>>

\* C13: exactly one politeness delay lies between two consecutive search
\* requests; a delay happens only in the step that ends a page with the target
\* not reached, never on the page that reaches the target, and never while the
\* cards of a page are processed or in a step that sends a detail request.
C13_OneDelayBetweenSearches ==
    /\ [](pc \in {"await_search", "cards", "await_detail"} =>
            sleeps = Len(searchLog) - 1)
    /\ [][sleeps' # sleeps =>
            /\ sleeps' = sleeps + 1
            /\ pc \in {"cards", "await_detail"}
            /\ pc' = "loop"
            /\ cards_done' = jobs_in_batch
            /\ Len(jobs') < cfg0.results_wanted
            /\ detailLog' = detailLog
            /\ searchLog' = searchLog]_vars
    /\ [][Len(jobs') >= cfg0.results_wanted => sleeps' = sleeps]_vars

\* two search pages with three detail fetches: one delay, none after the page
\* that reached the target
C13_Witness ==
    /\ Returned
    /\ impl = "jobbot"
    /\ cfg0.fetch_description
    /\ cfg0.results_wanted = 3
    /\ Len(Val(result)) = 3
    /\ Len(detailLog) = 3
    /\ Len(searchLog) = 2
    /\ sleeps = 1

\* the identifier whose detail request is in flight, if any
PendingDetail == IF pc = "await_detail" THEN <<Val(cur).job_id>> ELSE <<>>

\* C14: with description fetching disabled no detail request is ever issued
\* and every Job has description = None; with it enabled the detail requests
\* are, in order, exactly the identifiers of the Jobs appended (plus the one in
\* flight), so duplicates, discarded and blocked cards cause none.
C14_DetailRequestPerJob ==
    /\ ~cfg0.fetch_description =>
          /\ detailLog = <<>>
          /\ \A i \in 1..Len(jobs) : jobs[i].description = None
    /\ cfg0.fetch_description => detailLog = JobIds(jobs) \o PendingDetail
    /\ ~IsNone(result) => Val(result) = jobs

\* description fetching on, a blocklist in force: card 101 (Acme) was blocked
\* and a duplicate came again, two Jobs were built with two detail requests
C14_Witness ==
    /\ Returned
    /\ impl = "jobbot"
    /\ cfg0.fetch_description
    /\ Id101 \in seen_ids
    /\ repeats
    /\ Len(detailLog) = 2
    /\ JobIds(Val(result)) = detailLog
    /\ \A i \in 1..Len(detailLog) : detailLog[i] # Id101

\* the loop starts with nothing to do: no Job is wanted, or the configured
\* offset is at or beyond the ceiling
NothingToCollect == cfg0.results_wanted <= 0 \/ cfg0.offset >= OffsetCeiling

\* C15: with results_wanted <= 0, or an initial offset already >= 1000, the
\* first test of the loop returns an empty sequence: no search request is built
\* or sent, no detail request is sent, and there is no politeness delay.
C15_NothingToCollect ==
    /\ [](NothingToCollect =>
            /\ searchLog = <<>>
            /\ params = EmptyDict
            /\ detailLog = <<>>
            /\ sleeps = 0
            /\ jobs = <<>>
            /\ pc \notin {"await_search", "cards", "await_detail"})
    /\ [][(NothingToCollect /\ pc = "loop") =>
            (pc' = "returned" /\ result' = Some(<<>>) /\ raised' = "none")]_vars

\* three Jobs are wanted but the offset is 1000
C15_WitnessAtCeiling ==
    /\ Returned
    /\ impl = "jobbot"
    /\ cfg0.results_wanted = 3
    /\ cfg0.offset = 1000
    /\ result = Some(<<>>)
    /\ searchLog = <<>>

\* no Job is wanted, from offset 0
C15_Witness ==
    /\ Returned
    /\ impl = "jobbot"
    /\ cfg0.results_wanted <= 0
    /\ cfg0.offset = 0
    /\ result = Some(<<>>)

Range(s) == {s[i] : i \in 1..Len(s)}

\* C16: a card with no link, with no identifier in its link, or with an
\* identifier met before (the identifiers met are exactly the SeenSet) leaves
\* jobs and seen_ids as they were, sends no detail request and builds no Job.
C16_DiscardedCardChangesNothing ==
    /\ [](seen_ids = Range(firstSeen))
    /\ [][(cards_done' = cards_done + 1 /\ firstSeen' = firstSeen) =>
            /\ jobs' = jobs
            /\ seen_ids' = seen_ids
            /\ detailLog' = detailLog
            /\ cur' = cur
            /\ raised' = raised
            /\ pc' \in {"cards", "loop"}]_vars

\* a page of two cards gave one Job and one identifier, and on the next page a
\* card with that identifier was discarded as well
C16_Witness ==
    /\ impl = "jobbot"
    /\ batchLog = <<2, 1>>
    /\ cards_done = 1
    /\ pc = "loop"
    /\ repeats
    /\ Len(firstSeen) = 1
    /\ Len(jobs) = 1
    /\ Cardinality(seen_ids) = 1

\* C17: both the empty-page stop and the offset advance use the number of
\* containers of the page: a page with containers never ends the run by itself
\* (leaving the cards leads back to the loop test, or to the blocklist's
\* AttributeError), the offset after a page is the requested offset plus the
\* container count whatever the cards were, and the loop test then sends the
\* next search request at that offset unless the target or ceiling is reached.
C17_ContainersDrivePaging ==
    /\ [](pc \in {"cards", "await_detail"} =>
            (LastBatch > 0 /\ jobs_in_batch = LastBatch))
    /\ []((pc = "loop" /\ batchLog # <<>>) =>
            start = searchLog[Len(searchLog)] + LastBatch)
    /\ [][(pc \in {"cards", "await_detail"} /\ pc' \notin {"cards", "await_detail"}) =>
            (pc' = "loop" \/ raised' = "AttributeError")]_vars
    /\ [][(pc = "loop" /\ batchLog # <<>> /\ Len(jobs) < cfg0.results_wanted
              /\ start < OffsetCeiling) =>
            (pc' = "await_search" /\ searchLog' = Append(searchLog, start))]_vars

\* a first page of two containers, one discarded and one blocked, gave no Job;
\* the second request was sent at offset 2
C17_Witness ==
    /\ impl = "jobbot"
    /\ pc = "await_search"
    /\ batchLog = <<2>>
    /\ searchLog = <<0, 2>>
    /\ jobs = <<>>
    /\ Cardinality(seen_ids) = 1

Terminated == pc \in {"returned", "raised"}

\* C18: every run ends (it returns, or an exception leaves the loop); a page
\* that is processed advances the offset by at least 1, so the offsets
\* requested increase strictly below the ceiling and there are at most
\* 1000 - (initial offset) search requests.
C18_LoopTerminates ==
    /\ <>Terminated
    /\ [][(pc \in {"cards", "await_detail"} /\ pc' = "loop") => start' >= start + 1]_vars
    /\ [](\A i \in 1..Len(searchLog) :
            /\ searchLog[i] < OffsetCeiling
            /\ i > 1 => searchLog[i] > searchLog[i - 1])
    /\ [](Len(searchLog) <= Max(OffsetCeiling - InitialStart(impl, cfg0), 0))

\* the run was ended by the ceiling alone: the server still had pages to serve
\* and the target was not reached
C18_Witness ==
    /\ Returned
    /\ impl = "jobbot"
    /\ start >= OffsetCeiling
    /\ Len(searchLog) >= 2
    /\ pagesServed < server.pages
    /\ LastBatch > 0
    /\ Len(Val(result)) < cfg0.results_wanted

\* C19: the identifier of every Job is in seen_ids; jobs changes only by an
\* append at its end; every identifier met, a blocked company's included, is in
\* seen_ids, and a card that adds nothing to seen_ids builds no Job and sends
\* no detail request; there are never more Jobs than identifiers in seen_ids.
C19_JobsWithinSeenSet ==
    /\ [](/\ \A i \in 1..Len(jobs) : JobId(jobs[i]) \in seen_ids
          /\ Range(firstSeen) \subseteq seen_ids
          /\ Len(jobs) <= Cardinality(seen_ids))
    /\ [][\/ jobs' = jobs
          \/ /\ Len(jobs') = Len(jobs) + 1
             /\ SubSeq(jobs', 1, Len(jobs)) = jobs]_vars
    /\ [][(cards_done' = cards_done + 1 /\ seen_ids' = seen_ids) =>
            (jobs' = jobs /\ detailLog' = detailLog /\ pc' # "await_detail")]_vars

\* card 101 of a blocked company on the first page, cards 102 and 101 on the
\* second: one Job (102), two identifiers in seen_ids, 101 discarded when it
\* came again
C19_Witness ==
    /\ impl = "jobbot"
    /\ ~IsNone(cfg0.filter_out_companies)
    /\ batchLog = <<1, 2>>
    /\ cards_done = 2
    /\ firstSeen = <<Id101, Id102>>
    /\ repeats
    /\ seen_ids = {Id101, Id102}
    /\ JobIds(jobs) = <<Id102>>

\* C20: the configuration is never assigned: in every state, the final ones
\* of every stop reason included, cfg has the value it was passed with, and the
\* steps that advance the offset or collect a Job change start and jobs only.
C20_ConfigNeverMutated ==
    /\ [](cfg = cfg0)
    /\ [][(start' # start \/ jobs' # jobs) => cfg' = cfg]_vars

\* a run from offset 37 that requested pages at 30 and 32 and collected Jobs:
\* start has moved on to 33, cfg.offset is still 37
C20_Witness ==
    /\ Returned
    /\ impl = "jobbot"
    /\ cfg0.offset = 37
    /\ cfg.offset = 37
    /\ cfg.results_wanted = cfg0.results_wanted
    /\ searchLog = <<30, 32>>
    /\ start = 33
    /\ Len(Val(result)) >= 1

\* what a run shows: where it stands, the search offsets and detail fetches it
\* has issued, the exception that ended it, its Jobs and what it returned
Observed(r) == <<r.pc, r.searchLog, r.detailLog, r.raised, r.jobs, r.result>>

\* no company blocklist is configured (the configuration object has no such
\* attribute, or an empty one) and the work-type code is absent or in {1,2,3}
NoBlocklistValidWorkType ==
    /\ cfg0.filter_out_companies \in {NoAttr, Some(<<>>)}
    /\ WorkTypeValid(cfg0)

\* C21 as stated: with no blocklist configured and a valid or absent work type,
\* the packaged scraper and linkedin_scraper_min_v2, given the same
\* configuration and the same responses, have at every point issued the same
\* search offsets and detail fetches, stand at the same point, and hold and
\* return the same Job records.
C21_Original ==
    (pc = "pair" /\ NoBlocklistValidWorkType) =>
        Observed(pair.left) = Observed(pair.right)

\* the same comparison for a configuration object that was given an empty
\* filter_out_companies attribute: here the two programs agree throughout
C21_AgreeWithEmptyBlocklistAttribute ==
    (pc = "pair" /\ cfg0.filter_out_companies = Some(<<>>) /\ WorkTypeValid(cfg0)) =>
        Observed(pair.left) = Observed(pair.right)

\* both programs returned three Jobs with descriptions after two pages
C21_AgreeingRun ==
    /\ pc = "pair"
    /\ cfg0.filter_out_companies = Some(<<>>)
    /\ cfg0.f_WT = Some(2)
    /\ pair.left.pc = "returned"
    /\ pair.right.pc = "returned"
    /\ Len(pair.right.jobs) = 3
    /\ Len(pair.left.detailLog) = 3
    /\ Len(pair.left.searchLog) = 2

=============================================================================
